---- MODULE Spec2Model ----
(***************************************************************************)
(* A model of src/translator.js: the Translator class (load, setLanguage,  *)
(* get, apply / translateNode) together with the part of the JavaScript    *)
(* platform its code relies on (property lookup, truthiness, String        *)
(* coercion, RegExp construction, String.prototype.replace, JSON.parse,    *)
(* querySelectorAll, innerHTML assignment).                                *)
(*                                                                         *)
(* Strings are sequences of one-character strings.  JavaScript values are  *)
(* tagged records:                                                         *)
(*   [t |-> "undefined"], [t |-> "null"], [t |-> "num", n |-> 0..],        *)
(*   [t |-> "str", s |-> chars], [t |-> "arr", a |-> values],              *)
(*   [t |-> "obj", e |-> << <<name, value>>, ... >>]  (insertion order).   *)
(* Property names range over strings built from letters, digits and the   *)
(* punctuation of the fixtures below; none of them names a member of       *)
(* Object.prototype or String.prototype ("length", "constructor", ...).    *)
(***************************************************************************)
EXTENDS Integers, Sequences, FiniteSets, TLC

\* ------------------------------------------------------------- JS values

Undefined == [t |-> "undefined"]
Null == [t |-> "null"]
Str(s) == [t |-> "str", s |-> s]
Num(n) == [t |-> "num", n |-> n]
Arr(a) == [t |-> "arr", a |-> a]
Obj(e) == [t |-> "obj", e |-> e]

Digits == <<"0", "1", "2", "3", "4", "5", "6", "7", "8", "9">>

IsDigit(c) == \E d \in 1..10 : Digits[d] = c

DigitVal(c) == (CHOOSE d \in 1..10 : Digits[d] = c) - 1

RECURSIVE NumStr(_)
\* Number::toString for a non-negative integer
NumStr(n) == IF n < 10 THEN <<Digits[n + 1]>>
             ELSE NumStr(n \div 10) \o <<Digits[(n % 10) + 1]>>

RECURSIVE StrNum(_)
\* the integer a string of digits denotes
StrNum(s) == IF s = <<>> THEN 0
             ELSE 10 * StrNum(SubSeq(s, 1, Len(s) - 1)) + DigitVal(s[Len(s)])

\* a canonical array index: digits only, no leading zero
IsIndex(s) == /\ Len(s) >= 1
              /\ \A i \in 1..Len(s) : IsDigit(s[i])
              /\ (Len(s) = 1 \/ s[1] # "0")

ObjectObject == <<"[", "o", "b", "j", "e", "c", "t", " ",
                  "O", "b", "j", "e", "c", "t", "]">>

RECURSIVE ToStr(_)
RECURSIVE JoinComma(_)
\* Array.prototype.join(",") over the string forms of the elements
JoinComma(a) == IF a = <<>> THEN <<>>
                ELSE IF Len(a) = 1
                     THEN (IF a[1].t \in {"null", "undefined"} THEN <<>> ELSE ToStr(a[1]))
                     ELSE JoinComma(SubSeq(a, 1, Len(a) - 1)) \o <<",">>
                          \o (IF a[Len(a)].t \in {"null", "undefined"}
                              THEN <<>> ELSE ToStr(a[Len(a)]))

\* the ToString coercion (what `${v}`, replace(regex, v) and innerHTML = v apply)
ToStr(v) == CASE v.t = "str" -> v.s
              [] v.t = "num" -> NumStr(v.n)
              [] v.t = "null" -> <<"n", "u", "l", "l">>
              [] v.t = "undefined" -> <<"u", "n", "d", "e", "f", "i", "n", "e", "d">>
              [] v.t = "arr" -> JoinComma(v.a)
              [] v.t = "obj" -> ObjectObject

\* ToBoolean, as `!x` and `x ? .. : ..` apply it
Truthy(v) == CASE v.t = "str" -> v.s # <<>>
               [] v.t = "num" -> v.n # 0
               [] v.t \in {"null", "undefined"} -> FALSE
               [] v.t \in {"arr", "obj"} -> TRUE

HasOwn(o, i) == \E k \in 1..Len(o.e) : o.e[k][1] = i

\* obj[i]: own properties of objects, arrays and strings
Prop(o, i) ==
    CASE o.t = "obj" ->
           IF HasOwn(o, i)
           THEN o.e[CHOOSE k \in 1..Len(o.e) : o.e[k][1] = i][2]
           ELSE Undefined
      [] o.t = "str" ->
           IF IsIndex(i) /\ StrNum(i) < Len(o.s)
           THEN Str(<<o.s[StrNum(i) + 1]>>)
           ELSE Undefined
      [] o.t = "arr" ->
           IF IsIndex(i) /\ StrNum(i) < Len(o.a)
           THEN o.a[StrNum(i) + 1]
           ELSE Undefined
      [] OTHER -> Undefined

RECURSIVE IndexKeys(_)
IndexKeys(n) == IF n = 0 THEN <<>> ELSE IndexKeys(n - 1) \o <<NumStr(n - 1)>>

RECURSIVE SortedIdx(_, _)
\* the integer-like names of o in ascending numeric order
SortedIdx(o, S) ==
    IF S = {} THEN <<>>
    ELSE LET k == CHOOSE x \in S : \A y \in S : StrNum(o.e[x][1]) <= StrNum(o.e[y][1])
         IN <<o.e[k][1]>> \o SortedIdx(o, S \ {k})

\* the names a for-in loop enumerates, in order
ForInKeys(v) ==
    CASE v.t = "obj" ->
           SortedIdx(v, {k \in 1..Len(v.e) : IsIndex(v.e[k][1])})
           \o [j \in 1..Cardinality({k \in 1..Len(v.e) : ~IsIndex(v.e[k][1])}) |->
                 v.e[CHOOSE k \in 1..Len(v.e) :
                        /\ ~IsIndex(v.e[k][1])
                        /\ Cardinality({h \in 1..k : ~IsIndex(v.e[h][1])}) = j][1]]
      [] v.t = "arr" -> IndexKeys(Len(v.a))
      [] v.t = "str" -> IndexKeys(Len(v.s))
      [] OTHER -> <<>>

\* ------------------------------------------------------------ key lookup

RECURSIVE Split(_)
\* key.split('.')
Split(s) ==
    IF \A i \in 1..Len(s) : s[i] # "."
    THEN <<s>>
    ELSE LET i == CHOOSE j \in 1..Len(s) :
                     s[j] = "." /\ \A h \in 1..(j - 1) : s[h] # "."
         IN <<SubSeq(s, 1, i - 1)>> \o Split(SubSeq(s, i + 1, Len(s)))

RECURSIVE Reduce(_, _)
\* segs.reduce((obj, i) => (obj ? obj[i] : null), acc)
Reduce(segs, acc) ==
    IF segs = <<>> THEN acc
    ELSE Reduce(Tail(segs), IF Truthy(acc) THEN Prop(acc, Head(segs)) ELSE Null)

\* --------------------------------------------------------- interpolation

\* new RegExp(`{${varName}}`, 'g') throws SyntaxError ("Nothing to repeat")
\* when the braces form a quantifier {n}; for the other names of the model
\* (letters only, or empty) the pattern matches the literal token.
RegExpThrows(name) == name # <<>> /\ \A i \in 1..Len(name) : IsDigit(name[i])

Token(name) == <<"{">> \o name \o <<"}">>

StartsWith(s, p) == Len(s) >= Len(p) /\ SubSeq(s, 1, Len(p)) = p

RECURSIVE Expand(_, _)
\* GetSubstitution for a pattern without capture groups: $$ is $, $& is the
\* match, any other character (a lone $ too) stands for itself; the values
\* of the input sets hold neither ` nor ' (the patterns $` and $')
Expand(repl, matched) ==
    IF repl = <<>> THEN <<>>
    ELSE IF StartsWith(repl, <<"$", "$">>)
         THEN <<"$">> \o Expand(SubSeq(repl, 3, Len(repl)), matched)
    ELSE IF StartsWith(repl, <<"$", "&">>)
         THEN matched \o Expand(SubSeq(repl, 3, Len(repl)), matched)
    ELSE <<Head(repl)>> \o Expand(Tail(repl), matched)

RECURSIVE Replace(_, _, _)
\* text.replace(regex, value) with the g flag: every non-overlapping match,
\* left to right; an inserted replacement is not rescanned
Replace(text, tok, repl) ==
    IF text = <<>> THEN <<>>
    ELSE IF StartsWith(text, tok)
         THEN Expand(repl, tok) \o Replace(SubSeq(text, Len(tok) + 1, Len(text)), tok, repl)
    ELSE <<Head(text)>> \o Replace(Tail(text), tok, repl)

Ret(v, log) == [k |-> "ret", v |-> v, log |-> log]
Throw(e, log) == [k |-> "throw", e |-> e, log |-> log]

RECURSIVE Interpolate(_, _, _)
\* the for (const varName in vars) loop of get
Interpolate(text, vars, names) ==
    IF names = <<>> THEN Ret(text, <<>>)
    ELSE IF RegExpThrows(Head(names)) THEN Throw("SyntaxError", <<>>)
    ELSE IF text.t # "str" THEN Throw("TypeError", <<>>)
    ELSE Interpolate(Str(Replace(text.s, Token(Head(names)),
                                 ToStr(Prop(vars, Head(names))))),
                     vars, Tail(names))

\* get from line 50 on: text is the value the reduce of line 48 produced
GetText(lang, key, vars, text) ==
    IF ~Truthy(text)
    THEN Ret(Str(key), << <<"warn", "key", key, lang>> >>)
    ELSE Interpolate(text, vars, ForInKeys(vars))

\* get from line 46 on: langTranslations is this.translations[this.currentLang]
GetIn(lang, key, vars, langTranslations) ==
    IF ~Truthy(langTranslations) THEN Ret(Str(key), <<>>)
    ELSE GetText(lang, key, vars, Reduce(Split(key), langTranslations))

\* get(key, vars) with this.translations = tr and this.currentLang = lang
Get(tr, lang, key, vars) == GetIn(lang, key, vars, Prop(tr, lang))

\* ------------------------------------------------------------ JSON.parse

Fail == [ok |-> FALSE, v |-> Undefined, rest |-> <<>>]
Ok(v, rest) == [ok |-> TRUE, v |-> v, rest |-> rest]

\* define or overwrite the own property name of an entry list
Put(e, name, v) ==
    IF \E k \in 1..Len(e) : e[k][1] = name
    THEN [k \in 1..Len(e) |-> IF e[k][1] = name THEN <<name, v>> ELSE e[k]]
    ELSE Append(e, <<name, v>>)

\* the length of the longest prefix of s made of digits
DigitRun(s) == CHOOSE n \in 0..Len(s) :
                  /\ \A i \in 1..n : IsDigit(s[i])
                  /\ (n = Len(s) \/ ~IsDigit(s[n + 1]))

\* a JSON string without escapes: the text up to the closing quote
ParseString(s) ==
    IF s = <<>> \/ Head(s) # "\"" THEN Fail
    ELSE IF \A i \in 2..Len(s) : s[i] # "\"" THEN Fail
    ELSE LET j == CHOOSE i \in 2..Len(s) :
                     s[i] = "\"" /\ \A h \in 2..(i - 1) : s[h] # "\""
         IN Ok(Str(SubSeq(s, 2, j - 1)), SubSeq(s, j + 1, Len(s)))

RECURSIVE ParseValue(_)
RECURSIVE ParseElems(_, _)
RECURSIVE ParseMembers(_, _)

RECURSIVE AfterElem(_, _)
RECURSIVE AfterMember(_, _, _)
RECURSIVE AfterName(_, _)

\* elements after '[' or ',' ; acc holds the ones read so far
ParseElems(s, acc) == AfterElem(ParseValue(s), acc)

\* r is the element just read: ']' ends the array, ',' continues it
AfterElem(r, acc) ==
    IF ~r.ok \/ r.rest = <<>> THEN Fail
    ELSE IF Head(r.rest) = "]" THEN Ok(Arr(Append(acc, r.v)), Tail(r.rest))
    ELSE IF Head(r.rest) = "," THEN ParseElems(Tail(r.rest), Append(acc, r.v))
    ELSE Fail

\* members after '{' or ',' ; acc holds the entries read so far
ParseMembers(s, acc) == AfterName(ParseString(s), acc)

\* n is the member name just read: ':' and the member's value follow
AfterName(n, acc) ==
    IF ~n.ok \/ n.rest = <<>> \/ Head(n.rest) # ":" THEN Fail
    ELSE AfterMember(n.v.s, ParseValue(Tail(n.rest)), acc)

\* r is the value of member name: '}' ends the object, ',' continues it
AfterMember(name, r, acc) ==
    IF ~r.ok \/ r.rest = <<>> THEN Fail
    ELSE IF Head(r.rest) = "}" THEN Ok(Obj(Put(acc, name, r.v)), Tail(r.rest))
    ELSE IF Head(r.rest) = "," THEN ParseMembers(Tail(r.rest), Put(acc, name, r.v))
    ELSE Fail

\* one JSON value at the head of s (strings without escapes, non-negative
\* integers, null, arrays, objects; no white space)
ParseValue(s) ==
    IF s = <<>> THEN Fail
    ELSE IF Head(s) = "\"" THEN ParseString(s)
    ELSE IF Head(s) = "0" THEN Ok(Num(0), Tail(s))
    ELSE IF IsDigit(Head(s))
         THEN Ok(Num(StrNum(SubSeq(s, 1, DigitRun(s)))),
                 SubSeq(s, DigitRun(s) + 1, Len(s)))
    ELSE IF StartsWith(s, <<"n", "u", "l", "l">>)
         THEN Ok(Null, SubSeq(s, 5, Len(s)))
    ELSE IF Head(s) = "["
         THEN (IF Len(s) >= 2 /\ s[2] = "]" THEN Ok(Arr(<<>>), SubSeq(s, 3, Len(s)))
               ELSE ParseElems(Tail(s), <<>>))
    ELSE IF Head(s) = "{"
         THEN (IF Len(s) >= 2 /\ s[2] = "}" THEN Ok(Obj(<<>>), SubSeq(s, 3, Len(s)))
               ELSE ParseMembers(Tail(s), <<>>))
    ELSE Fail

\* a parse is a result only when it consumed the whole text
Whole(r) == IF r.ok /\ r.rest = <<>> THEN r ELSE Fail

\* JSON.parse(text): ok = FALSE stands for the SyntaxError it throws
JSONParse(s) == Whole(ParseValue(s))

\* ------------------------------------------------------ the document tree

\* A node: key and vars are what getAttribute('data-translate') and
\* getAttribute('data-translate-vars') return (Null when the attribute is
\* absent), kids the child elements in document order, html the text
\* content, host/skids the open shadow root of the node and its children.
Node(key, vars, kids, host, skids) ==
    [key |-> key, vars |-> vars, kids |-> kids, html |-> <<"o">>,
     host |-> host, skids |-> skids]

Body == 0

\* the children of a root: an element <<"el", n>> or the shadow root <<"sr", n>>
RootKids(d, root) == IF root[1] = "el" THEN d[root[2]].kids ELSE d[root[2]].skids

RECURSIVE Desc(_, _)
\* the descendants of a node list's owner, in document order; like
\* querySelectorAll it does not enter shadow roots
Desc(d, ks) ==
    IF ks = <<>> THEN <<>>
    ELSE <<Head(ks)>> \o Desc(d, d[Head(ks)].kids) \o Desc(d, Tail(ks))

RECURSIVE Filter(_, _, _)
Filter(d, ns, attr) ==
    IF ns = <<>> THEN <<>>
    ELSE (IF attr = "key" /\ d[Head(ns)].key # Null THEN <<Head(ns)>>
          ELSE IF attr = "host" /\ d[Head(ns)].host THEN <<Head(ns)>>
          ELSE <<>>) \o Filter(d, Tail(ns), attr)

\* rootNode.querySelectorAll('[data-translate]'): a static list
QuerySelectorAll(d, root) == Filter(d, Desc(d, RootKids(d, root)), "key")

\* el.innerHTML = v: the children are dropped, the text is the string form of v
SetInnerHTML(d, el, v) ==
    [d EXCEPT ![el] = [@ EXCEPT !.kids = <<>>, !.html = ToStr(v)]]

\* the state of a render pass: the tree, the notifications, the fault that
\* ended it ("none" while it runs) and the number of innerHTML writes per node
Pass(d, log, threw, renders) ==
    [d |-> d, log |-> log, threw |-> threw, renders |-> renders]

\* the outcome of try { vars = JSON.parse(varsAttr) } catch: bad = TRUE when
\* the catch clause ran and vars kept its initial {}
Decoded(parsed) ==
    IF parsed.ok THEN [v |-> parsed.v, bad |-> FALSE]
    ELSE [v |-> Obj(<<>>), bad |-> TRUE]

\* let vars = {}; if (varsAttr) { try { vars = JSON.parse(varsAttr) } catch .. }
DecodeVars(varsAttr) ==
    IF ~Truthy(varsAttr) THEN [v |-> Obj(<<>>), bad |-> FALSE]
    ELSE Decoded(JSONParse(varsAttr.s))

\* el.innerHTML = this.get(key, vars), g being the outcome of the get call
WriteResult(st, el, log1, g) ==
    IF g.k = "throw" THEN Pass(st.d, log1 \o g.log, g.e, st.renders)
    ELSE Pass(SetInnerHTML(st.d, el, g.v), log1 \o g.log, "none",
              [st.renders EXCEPT ![el] = @ + 1])

\* lines 85-92 for an element with key and decoded vars dec
RenderDecoded(tr, lang, st, el, key, dec) ==
    WriteResult(st, el,
                IF dec.bad THEN Append(st.log, <<"error", "vars", key>>) ELSE st.log,
                Get(tr, lang, key, dec.v))

\* the body of elementsToTranslate.forEach for one element
RenderOne(tr, lang, st, el) ==
    RenderDecoded(tr, lang, st, el, st.d[el].key.s, DecodeVars(st.d[el].vars))

RECURSIVE RenderEach(_, _, _, _)
RenderEach(tr, lang, st, els) ==
    IF els = <<>> \/ st.threw # "none" THEN st
    ELSE RenderEach(tr, lang, RenderOne(tr, lang, st, Head(els)), Tail(els))

RECURSIVE TranslateNode(_, _, _, _)
RECURSIVE Recurse(_, _, _, _)
RECURSIVE EnterShadowRoots(_, _, _, _)

\* allElements.forEach: enter the shadow root of every host of the list
Recurse(tr, lang, st, els) ==
    IF els = <<>> \/ st.threw # "none" THEN st
    ELSE Recurse(tr, lang,
                 IF st.d[Head(els)].host
                 THEN TranslateNode(tr, lang, st, <<"sr", Head(els)>>)
                 ELSE st,
                 Tail(els))

\* step 2 of translateNode: st is the pass after step 1
EnterShadowRoots(tr, lang, st, root) ==
    Recurse(tr, lang, st, Desc(st.d, RootKids(st.d, root)))

\* translateNode(rootNode): render the annotated elements found in the root,
\* then query the root again for every element and enter the shadow roots
TranslateNode(tr, lang, st, root) ==
    EnterShadowRoots(tr, lang, RenderEach(tr, lang, st, QuerySelectorAll(st.d, root)), root)

\* ------------------------------------------------------------ input sets

\* the largest number of segments of a dotted key
MaxDepth == 4

en == <<"e", "n">>
es == <<"e", "s">>
fr == <<"f", "r">>
Langs == {en, es, fr}

Segs == {<<"a">>, <<"b">>, <<"0">>}

RECURSIVE KeysOfDepth(_)
\* the dotted keys of exactly n segments
KeysOfDepth(n) ==
    IF n = 1 THEN Segs
    ELSE {k \o <<".">> \o g : k \in KeysOfDepth(n - 1), g \in Segs}

Keys == UNION {KeysOfDepth(n) : n \in 1..MaxDepth}

\* en: {a: {a: "", b: "{n}x{n}{m}", 0: {a: {b: "d{n}"}}}, b: "yz"}
EnTree ==
    Obj(<< << <<"a">>,
              Obj(<< << <<"a">>, Str(<<>>) >>,
                     << <<"b">>, Str(<<"{", "n", "}", "x", "{", "n", "}", "{", "m", "}">>) >>,
                     << <<"0">>,
                        Obj(<< << <<"a">>,
                                  Obj(<< << <<"b">>, Str(<<"d", "{", "n", "}">>) >> >>) >> >>) >> >>) >>,
           << <<"b">>, Str(<<"y", "z">>) >> >>)

\* es: {a: {b: "{n}w"}, b: {a: "q"}}
EsTree ==
    Obj(<< << <<"a">>, Obj(<< << <<"b">>, Str(<<"{", "n", "}", "w">>) >> >>) >>,
           << <<"b">>, Obj(<< << <<"a">>, Str(<<"q">>) >> >>) >> >>)

TableA == Obj(<< <<en, EnTree>>, <<es, EsTree>> >>)

\* {es: {a: "s"}, fr: {}}
TableB == Obj(<< <<es, Obj(<< << <<"a">>, Str(<<"s">>) >> >>)>>, <<fr, Obj(<<>>)>> >>)

Tables == {TableA, TableB}

\* the vars arguments of direct get calls; Undefined is the omitted argument
GetVars ==
    { Undefined,
      Obj(<<>>),
      Obj(<< << <<"n">>, Str(<<"v">>) >> >>),
      Obj(<< << <<"n">>, Str(<<"$", "&">>) >> >>),
      Obj(<< << <<"n">>, Num(7) >>, << <<"m">>, Str(<<"w">>) >> >>),
      Arr(<<Str(<<"v">>)>>),
      Null }

\* serialized vars payloads: {"n":"v"}   {n   ["v"]
PayloadObj == <<"{", "\"", "n", "\"", ":", "\"", "v", "\"", "}">>
PayloadBad == <<"{", "n">>
PayloadArr == <<"[", "\"", "v", "\"", "]">>

KeyAB == <<"a", ".", "b">>
KeyAA == <<"a", ".", "a">>
KeyBA == <<"b", ".", "a">>
KeyB0 == <<"b", ".", "0">>
KeyA0AB == <<"a", ".", "0", ".", "a", ".", "b">>

Nodes == 0..5

Plain(kids) == Node(Null, Null, kids, FALSE, <<>>)

\* two shadow roots, one inside the other; node 3 is annotated and a host
DocA ==
    [n \in Nodes |->
       CASE n = 0 -> Plain(<<1, 2, 5>>)
         [] n = 1 -> Node(Str(KeyAB), Str(PayloadObj), <<>>, FALSE, <<>>)
         [] n = 2 -> Node(Null, Null, <<>>, TRUE, <<3>>)
         [] n = 3 -> Node(Str(<<"b">>), Null, <<>>, TRUE, <<4>>)
         [] n = 4 -> Node(Str(KeyA0AB), Str(PayloadBad), <<>>, FALSE, <<>>)
         [] n = 5 -> Node(Str(KeyAA), Str(<<>>), <<>>, FALSE, <<>>)]

\* an annotated node with a shadow host and an annotated node below it
DocB ==
    [n \in Nodes |->
       CASE n = 0 -> Plain(<<1, 5>>)
         [] n = 1 -> Node(Str(<<"b">>), Null, <<2, 4>>, FALSE, <<>>)
         [] n = 2 -> Node(Null, Null, <<>>, TRUE, <<3>>)
         [] n = 3 -> Node(Str(KeyAB), Null, <<>>, FALSE, <<>>)
         [] n = 4 -> Node(Str(KeyAB), Str(PayloadArr), <<>>, FALSE, <<>>)
         [] n = 5 -> Node(Str(KeyAA), Null, <<>>, FALSE, <<>>)]

\* a flat document; nodes 4 and 5 are not part of it
DocC ==
    [n \in Nodes |->
       CASE n = 0 -> Plain(<<1, 2, 3>>)
         [] n = 1 -> Node(Str(<<"a">>), Null, <<>>, FALSE, <<>>)
         [] n = 2 -> Node(Str(KeyBA), Str(PayloadObj), <<>>, FALSE, <<>>)
         [] n = 3 -> Node(Str(KeyB0), Str(PayloadArr), <<>>, FALSE, <<>>)
         [] OTHER -> Plain(<<>>)]

Docs == {DocA, DocB, DocC}

\* the keys of direct get calls in the full state machine
DocKeys == {KeyAB, KeyB0, <<"a">>}

\* --------------------------------------------------------- the Translator

VARIABLES
    currentLang,   \* this.currentLang
    translations,  \* this.translations
    dom,           \* the document below document.body
    log,           \* the console notifications of the last call
    last,          \* the last call: operation, arguments, outcome
    renders,       \* innerHTML writes per node during the last call
    initialLang,   \* the constructor's argument
    switched       \* a setLanguage call has passed its table check

vars == <<currentLang, translations, dom, log, last, renders, initialLang, switched>>

NoRenders == [n \in Nodes |-> 0]

Call(op, lang, key, args, ok, out, v) ==
    [op |-> op, lang |-> lang, key |-> key, vars |-> args,
     ok |-> ok, out |-> out, v |-> v]

\* constructor(initialLang = 'en')
Init ==
    /\ initialLang \in {en, fr}
    /\ currentLang = initialLang
    /\ translations = Obj(<<>>)
    /\ dom \in Docs
    /\ log = <<>>
    /\ last = Call("new", initialLang, <<>>, Undefined, TRUE, "ret", Undefined)
    /\ renders = NoRenders
    /\ switched = FALSE

\* load that also makes the table's first language current
LoadResets(t) ==
    /\ translations' = t
    /\ currentLang' = IF t.e = <<>> THEN currentLang ELSE t.e[1][1]
    /\ log' = <<>>
    /\ last' = Call("load", <<>>, <<>>, Undefined, TRUE, "ret", Undefined)
    /\ renders' = NoRenders
    /\ UNCHANGED <<dom, initialLang, switched>>

\* load(translationsData)
Load(t) ==
    /\ translations' = t
    /\ log' = <<>>
    /\ last' = Call("load", <<>>, <<>>, Undefined, TRUE, "ret", Undefined)
    /\ renders' = NoRenders
    /\ UNCHANGED <<currentLang, dom, initialLang, switched>>

\* this.translateNode(document.body)
ApplyPass(tr, lang, d, log0) ==
    TranslateNode(tr, lang, Pass(d, log0, "none", NoRenders), <<"el", Body>>)

\* how a call ended: "ret", or the name of the fault that left it
Outcome(threw) == IF threw = "none" THEN "ret" ELSE threw

\* the effect of a pass st on the document and the console
Rendered(st) ==
    /\ dom' = st.d
    /\ log' = st.log
    /\ renders' = st.renders

\* apply()
Apply ==
    /\ Rendered(ApplyPass(translations, currentLang, dom, <<>>))
    /\ last' = Call("apply", <<>>, <<>>, Undefined, TRUE,
                    Outcome(ApplyPass(translations, currentLang, dom, <<>>).threw),
                    Undefined)
    /\ UNCHANGED <<currentLang, translations, initialLang, switched>>

\* lines 28-29 of setLanguage: the error and the early return
Refuse(lang) ==
    /\ log' = << <<"error", "lang", lang>> >>
    /\ last' = Call("setLanguage", lang, <<>>, Undefined, FALSE, "ret", Undefined)
    /\ renders' = NoRenders
    /\ UNCHANGED <<currentLang, translations, dom, initialLang, switched>>

\* lines 31-33 of setLanguage, the pass of this.apply() running under cur
Switch(lang, cur) ==
    /\ currentLang' = lang
    /\ switched' = TRUE
    /\ Rendered(ApplyPass(translations, cur, dom, << <<"log", "lang", lang>> >>))
    /\ last' = Call("setLanguage", lang, <<>>, Undefined, TRUE,
                    Outcome(ApplyPass(translations, cur, dom,
                                      << <<"log", "lang", lang>> >>).threw),
                    Undefined)
    /\ UNCHANGED <<translations, initialLang>>

\* setLanguage without the table check
SetLanguageUnchecked(lang) == Switch(lang, lang)

\* setLanguage whose apply() still reads the previous this.currentLang
SetLanguageStale(lang) ==
    IF ~Truthy(Prop(translations, lang)) THEN Refuse(lang)
    ELSE Switch(lang, currentLang)

\* setLanguage(lang)
SetLanguage(lang) ==
    IF ~Truthy(Prop(translations, lang)) THEN Refuse(lang)
    ELSE Switch(lang, lang)

\* what a get call leaves behind: its notifications and its outcome
Returned(key, args, g) ==
    /\ log' = g.log
    /\ last' = Call("get", <<>>, key, args, TRUE,
                    IF g.k = "ret" THEN "ret" ELSE g.e,
                    IF g.k = "ret" THEN g.v ELSE Undefined)

\* a call get(key, args); an omitted args is the default {}
GetCall(key, args) ==
    /\ Returned(key, args,
                Get(translations, currentLang, key,
                    IF args = Undefined THEN Obj(<<>>) ELSE args))
    /\ renders' = NoRenders
    /\ UNCHANGED <<currentLang, translations, dom, initialLang, switched>>

Next ==
    \/ \E t \in Tables : Load(t)
    \/ \E lang \in Langs : SetLanguage(lang)
    \/ Apply
    \/ \E key \in DocKeys, args \in GetVars : GetCall(key, args)

Spec == Init /\ [][Next]_vars

\* get as a function of its inputs: a table is loaded, a language is
\* current, and get is called with every key and vars of the input sets
InitGet ==
    /\ initialLang \in Langs
    /\ currentLang = initialLang
    /\ translations \in Tables
    /\ dom = DocA
    /\ log = <<>>
    /\ last = Call("load", <<>>, <<>>, Undefined, TRUE, "ret", Undefined)
    /\ renders = NoRenders
    /\ switched = FALSE

NextGet == \E key \in Keys, args \in GetVars : GetCall(key, args)

SpecGet == InitGet /\ [][NextGet]_vars

\* ------------------------------------------------ vocabulary of the claims

RECURSIVE Lookup(_, _)
\* the value a path of segments ends at in a language tree, walking only
\* through nested trees; Undefined when a segment is absent
Lookup(v, segs) ==
    IF segs = <<>> THEN v
    ELSE IF v.t = "obj" /\ HasOwn(v, Head(segs))
         THEN Lookup(Prop(v, Head(segs)), Tail(segs))
    ELSE Undefined

\* what the key of the last get call ends at in the current language's tree
LastEnd ==
    IF HasOwn(translations, currentLang)
    THEN Lookup(Prop(translations, currentLang), Split(last.key))
    ELSE Undefined

RECURSIVE ReachSet(_, _)
\* the nodes reachable from a list of nodes through children and shadow roots
ReachSet(d, ks) ==
    IF ks = <<>> THEN {}
    ELSE {Head(ks)} \cup ReachSet(d, d[Head(ks)].kids)
         \cup (IF d[Head(ks)].host THEN ReachSet(d, d[Head(ks)].skids) ELSE {})
         \cup ReachSet(d, Tail(ks))

\* the annotated nodes reachable from the document root
ReachableAnnotated(d) == {n \in ReachSet(d, d[Body].kids) : d[n].key # Null}

RECURSIVE Subst(_, _)
\* the template with every token {name} of a vars entry replaced by the
\* string form of its value, all entries at once, nothing else changed
Subst(text, m) ==
    IF text = <<>> THEN <<>>
    ELSE IF \E k \in 1..Len(m.e) : StartsWith(text, Token(m.e[k][1]))
         THEN LET k == CHOOSE h \in 1..Len(m.e) : StartsWith(text, Token(m.e[h][1]))
              IN ToStr(m.e[k][2])
                 \o Subst(SubSeq(text, Len(Token(m.e[k][1])) + 1, Len(text)), m)
    ELSE <<Head(text)>> \o Subst(Tail(text), m)

\* ----------------------------------------------------------------- claims

C2_SwitchRendersUnderNewLanguage ==
    (last.op = "setLanguage" /\ last.ok /\ last.out = "ret")
      => /\ currentLang = last.lang
         /\ \A n \in ReachableAnnotated(dom) :
              LET g == Get(translations, last.lang, dom[n].key.s, DecodeVars(dom[n].vars).v)
              IN g.k = "ret" /\ dom[n].html = ToStr(g.v)

\* C2 witness: a switch from en to es under TableA has returned and a
\* reachable node shows its es text, which differs from its en text.
C2_Witness ==
    /\ last.op = "setLanguage" /\ last.ok /\ last.out = "ret"
    /\ last.lang = es /\ initialLang = en /\ translations = TableA
    /\ \E n \in ReachableAnnotated(dom) :
         /\ dom[n].html = <<"v", "w">>
         /\ Get(translations, en, dom[n].key.s, DecodeVars(dom[n].vars).v).v # Str(<<"v", "w">>)

C4_LeafReturned ==
    (last.op = "get" /\ last.vars = Undefined /\ LastEnd.t = "str")
      => (last.out = "ret" /\ last.v = LastEnd)

\* C5: get(key, vars) returns key unchanged whenever a segment of the key is
\* absent from the current language's tree, whatever vars and the other
\* languages hold.
C5_AbsentSegmentReturnsKey ==
    (last.op = "get" /\ LastEnd = Undefined)
      => (last.out = "ret" /\ last.v = Str(last.key))

\* C6: for a resolved template and a vars map, get returns the template with
\* every token {name} of an entry replaced by the string form of its value
\* and everything else unchanged.
C6_Interpolation ==
    (/\ last.op = "get"
     /\ LastEnd.t = "str" /\ LastEnd.s # <<>>
     /\ last.vars.t = "obj"
     /\ \A k \in 1..Len(last.vars.e) : ~RegExpThrows(last.vars.e[k][1]))
      => (last.out = "ret" /\ last.v = Str(Subst(LastEnd.s, last.vars)))

\* C7: one apply() pass renders every annotated node that was reachable from
\* the document root at its start exactly once.
C7_EveryReachableNodeRenderedOnce ==
    [][last'.op = "apply"
         => \A n \in ReachableAnnotated(dom) : renders'[n] = 1]_vars

\* C8: no call of get, setLanguage or apply ends in a thrown fault.
C8_NoThrow ==
    last.op \in {"get", "setLanguage", "apply"} => last.out = "ret"

\* C9: an apply() directly after an apply() leaves every node as it was.
C9_ApplyIdempotent ==
    [][(last.op = "apply" /\ last'.op = "apply") => dom' = dom]_vars

\* C10: when the key ends at a nested tree, get(key, vars) returns key and
\* emits the missing-key warning.
C10_TreeTerminalIsMissing ==
    (last.op = "get" /\ LastEnd.t = "obj")
      => /\ last.out = "ret"
         /\ last.v = Str(last.key)
         /\ log = << <<"warn", "key", last.key, currentLang>> >>

====
